---- MODULE Spec2Model ----
(***************************************************************************)
(* The doctor's calendar screen (src/app/(doctor)/calendar.tsx): the month *)
(* grid, the per-day composite appointment status, and the handlers that   *)
(* change the screen's state.                                              *)
(*                                                                         *)
(* JavaScript Date objects are modelled by their ECMAScript time value,    *)
(* counted in whole days since 1970-01-01 (the day number Day(t)); the     *)
(* Date constructor and the getters are the ECMAScript abstract operations *)
(* MakeDay, YearFromTime, MonthFromTime, DateFromTime and WeekDay.         *)
(* A Date of the screen's state (currentDate) is held as the day number of  *)
(* its local time; an appointment_date is an instant, in minutes UTC.       *)
(* Strings are sequences of one-character strings, so that formatting is   *)
(* computed and two keys are equal only when their characters are.         *)
(***************************************************************************)
EXTENDS Integers, Sequences, FiniteSets, TLC

\* the calendar screen's state (useState) and the grid it shows
VARIABLES currentDate, selectedDate, appointments, loading, doctorId, cells

\* what surrounds the calendar screen: the device's offset from UTC, the
\* server's table appointments, the supabase calls in flight, and the alerts
\* shown so far
VARIABLES localTZA, appointmentsTable, authPending, requests, alerts

\* the reports screen's state (its loading is reportsLoading here) and the
\* user of the AuthContext
VARIABLES reports, reportsLoading, error, filterStatus, downloadingId, user

\* what surrounds the reports screen: the server's table reports, the
\* fetchReports and updateReportStatus calls in flight, and the runs of
\* handleDownload under way
VARIABLES reportsTable, reportRequests, updateRequests, downloads

\* the patients screen's state (its loading is patientsLoading here), the
\* server's table prescriptions and the number of its queries in flight
VARIABLES patients, patientsLoading, prescriptionsTable, patientRequests

\* the side menu's props isVisible and activeItem, the router's stack of
\* routes (its top is the pathname), and the calls that the last run of
\* handleNavigation has made
VARIABLES isVisible, activeItem, stack, calls

calendarVars ==
    <<currentDate, selectedDate, appointments, loading, doctorId, cells>>

environmentVars ==
    <<localTZA, appointmentsTable, authPending, requests, alerts>>

reportsVars ==
    <<reports, reportsLoading, error, filterStatus, downloadingId, user,
      reportsTable, reportRequests, updateRequests, downloads>>

patientsVars ==
    <<patients, patientsLoading, prescriptionsTable, patientRequests>>

menuVars == <<isVisible, activeItem, stack, calls>>

vars ==
    <<calendarVars, environmentVars, reportsVars, patientsVars, menuVars>>

\* null of the source where the other values are atoms (doctorId, a status,
\* getAppointmentStatus's result, a colour)
NULL == "null"

\* null of the source where the other values are character sequences
\* (selectedDate); no date key is empty
NullDate == <<>>

----------------------------------------------------------------------------
(* ECMAScript date arithmetic, as the engine computes new Date(y, m, d),   *)
(* getFullYear, getMonth, getDate and getDay.                              *)

DaysInYear(y) ==
    IF y % 4 # 0 THEN 365
    ELSE IF y % 100 # 0 THEN 366
    ELSE IF y % 400 # 0 THEN 365
    ELSE 366

\* day number of January 1st of year y
DayFromYear(y) ==
    365 * (y - 1970) + ((y - 1969) \div 4) - ((y - 1901) \div 100)
        + ((y - 1601) \div 400)

InLeapYear(y) == IF DaysInYear(y) = 366 THEN 1 ELSE 0

\* number of days of a year before its month mn (0 = January), inLeapYear
\* being 1 in a leap year and 0 otherwise
DaysBeforeMonth(inLeapYear, mn) ==
    CASE mn = 0 -> 0
      [] mn = 1 -> 31
      [] mn = 2 -> 59 + inLeapYear
      [] mn = 3 -> 90 + inLeapYear
      [] mn = 4 -> 120 + inLeapYear
      [] mn = 5 -> 151 + inLeapYear
      [] mn = 6 -> 181 + inLeapYear
      [] mn = 7 -> 212 + inLeapYear
      [] mn = 8 -> 243 + inLeapYear
      [] mn = 9 -> 273 + inLeapYear
      [] mn = 10 -> 304 + inLeapYear
      [] mn = 11 -> 334 + inLeapYear

\* the year containing day number day: the y with
\* DayFromYear(y) <= day < DayFromYear(y + 1), which lies next to
\* 1970 + day / 365 for the years the model displays
YearFromTime(day) ==
    LET guess == 1970 + (day \div 365)
    IN  CHOOSE y \in {guess - 1, guess, guess + 1} :
            DayFromYear(y) <= day /\ day < DayFromYear(y + 1)

DayWithinYear(day) == day - DayFromYear(YearFromTime(day))

\* the month whose days include day dayWithinYear of a year: no month
\* before dayWithinYear / 31, as no month has more than 31 days
MonthInYear(inLeapYear, dayWithinYear) ==
    LET guess == dayWithinYear \div 31
    IN  CHOOSE mn \in {guess, guess + 1} \cap 0..11 :
            /\ DaysBeforeMonth(inLeapYear, mn) <= dayWithinYear
            /\ (mn = 11 \/ dayWithinYear < DaysBeforeMonth(inLeapYear, mn + 1))

MonthFromTime(day) ==
    MonthInYear(InLeapYear(YearFromTime(day)), DayWithinYear(day))

DateFromTime(day) ==
    DayWithinYear(day)
        - DaysBeforeMonth(InLeapYear(YearFromTime(day)), MonthFromTime(day)) + 1

WeekDay(day) == (day + 4) % 7

\* MakeDay(year, month, date): month and date may lie outside their ranges
MakeDay(year, month, date) ==
    LET ym == year + (month \div 12)
        mn == month % 12
    IN  DayFromYear(ym) + DaysBeforeMonth(InLeapYear(ym), mn) + date - 1

\* new Date(year, month, date): a year 0..99 means 1900 + year
NewDate(year, month, date) ==
    MakeDay(IF 0 <= year /\ year <= 99 THEN 1900 + year ELSE year, month, date)

\* d.setMonth(month): the day of the month is kept, and a day the new month
\* does not have runs over into the month after it
setMonth(d, month) == MakeDay(YearFromTime(d), month, DateFromTime(d))

getFullYear(d) == YearFromTime(d)
getMonth(d) == MonthFromTime(d)
getDate(d) == DateFromTime(d)
getDay(d) == WeekDay(d)

\* an instant is a number of minutes since 1970-01-01T00:00Z
MinutesPerDay == 1440

\* Day(t): the UTC day number of the instant t
Day(t) == t \div MinutesPerDay

\* the instant of the local time minute of day number d, on a device whose
\* local time is tza minutes ahead of UTC (ECMAScript UTC(t) = t - LocalTZA)
UTC(d, minute, tza) == d * MinutesPerDay + minute - tza

----------------------------------------------------------------------------
(* Strings: String(n), padStart and the date part of toISOString.          *)

Digits == <<"0", "1", "2", "3", "4", "5", "6", "7", "8", "9">>

RECURSIVE NumberToString(_)
NumberToString(n) ==
    IF n < 10 THEN <<Digits[n + 1]>>
    ELSE Append(NumberToString(n \div 10), Digits[(n % 10) + 1])

RECURSIVE padStart(_, _, _)
padStart(s, targetLength, fill) ==
    IF Len(s) >= targetLength THEN s
    ELSE padStart(<<fill>> \o s, targetLength, fill)

\* new Date(t).toISOString().split('T')[0], for the years 0..9999
ISODate(d) ==
    LET year == YearFromTime(d)
        dayWithinYear == d - DayFromYear(year)
        month == MonthInYear(InLeapYear(year), dayWithinYear)
        date == dayWithinYear - DaysBeforeMonth(InLeapYear(year), month) + 1
    IN  padStart(NumberToString(year), 4, "0") \o <<"-">>
            \o padStart(NumberToString(month + 1), 2, "0") \o <<"-">>
            \o padStart(NumberToString(date), 2, "0")

\* formatDate without the padding of month and day
\* the number a string of decimal digits denotes
RECURSIVE StringToNumber(_)
StringToNumber(s) ==
    IF s = <<>> THEN 0
    ELSE 10 * StringToNumber(SubSeq(s, 1, Len(s) - 1))
             + (CHOOSE n \in 0..9 : Digits[n + 1] = s[Len(s)])

\* new Date(key + 'T00:00:00'): the local day of a date key YYYY-MM-DD
parseLocalDate(key) ==
    MakeDay(StringToNumber(SubSeq(key, 1, 4)),
            StringToNumber(SubSeq(key, 6, 7)) - 1,
            StringToNumber(SubSeq(key, 9, 10)))

formatDate_NoPad(year, month, day) ==
    NumberToString(year) \o <<"-">> \o NumberToString(month + 1)
        \o <<"-">> \o NumberToString(day)

formatDate(year, month, day) ==
    NumberToString(year) \o <<"-">>
        \o padStart(NumberToString(month + 1), 2, "0") \o <<"-">>
        \o padStart(NumberToString(day), 2, "0")

----------------------------------------------------------------------------
(* The calendar screen's pure helpers.  The source's helpers close over    *)
(* the state variable appointments; here it is the parameter appts.        *)

\* getDaysInMonth with the next month's index held within 0..11
getDaysInMonth_ClampMonth(date) ==
    getDate(NewDate(getFullYear(date),
                    IF getMonth(date) + 1 > 11 THEN 11 ELSE getMonth(date) + 1,
                    0))

\* getDaysInMonth with day 0 of the month itself instead of the next month
getDaysInMonth_ThisMonth(date) ==
    getDate(NewDate(getFullYear(date), getMonth(date), 0))

getDaysInMonth(date) ==
    getDate(NewDate(getFullYear(date), getMonth(date) + 1, 0))

\* getFirstDayOfMonth with the weekday counted from Monday
getFirstDayOfMonth_MondayFirst(date) ==
    (getDay(NewDate(getFullYear(date), getMonth(date), 1)) + 6) % 7

getFirstDayOfMonth(date) ==
    getDay(NewDate(getFullYear(date), getMonth(date), 1))

getAppointmentsForDate(appts, dateString) ==
    SelectSeq(appts, LAMBDA apt : apt.date = dateString)

\* hasAppointment with the test length > 1
hasAppointment_MoreThanOne(appts, dateString) ==
    Len(getAppointmentsForDate(appts, dateString)) > 1

hasAppointment(appts, dateString) ==
    Len(getAppointmentsForDate(appts, dateString)) > 0

\* getAppointmentStatus with the test for completed before the test for mixed
getAppointmentStatus_CompletedFirst(appts, dateString) ==
    LET dayAppointments == getAppointmentsForDate(appts, dateString)
        hasCompleted ==
            \E i \in 1..Len(dayAppointments) :
                LET apt == dayAppointments[i] IN apt.status = "completed"
        hasScheduled ==
            \E i \in 1..Len(dayAppointments) :
                LET apt == dayAppointments[i]
                IN  apt.status = "scheduled" \/ apt.status = "confirmed"
    IN  IF Len(dayAppointments) = 0 THEN NULL
        ELSE IF hasCompleted THEN "completed"
        ELSE IF hasCompleted /\ hasScheduled THEN "mixed"
        ELSE IF hasScheduled THEN "scheduled"
        ELSE "cancelled"

\* getAppointmentStatus with hasCompleted computed by every instead of some
getAppointmentStatus_EveryCompleted(appts, dateString) ==
    LET dayAppointments == getAppointmentsForDate(appts, dateString)
        hasCompleted ==
            \A i \in 1..Len(dayAppointments) :
                LET apt == dayAppointments[i] IN apt.status = "completed"
        hasScheduled ==
            \E i \in 1..Len(dayAppointments) :
                LET apt == dayAppointments[i]
                IN  apt.status = "scheduled" \/ apt.status = "confirmed"
    IN  IF Len(dayAppointments) = 0 THEN NULL
        ELSE IF hasCompleted /\ hasScheduled THEN "mixed"
        ELSE IF hasCompleted THEN "completed"
        ELSE IF hasScheduled THEN "scheduled"
        ELSE "cancelled"

\* getAppointmentStatus with hasScheduled blind to the status confirmed
getAppointmentStatus_NoConfirmed(appts, dateString) ==
    LET dayAppointments == getAppointmentsForDate(appts, dateString)
        hasCompleted ==
            \E i \in 1..Len(dayAppointments) :
                LET apt == dayAppointments[i] IN apt.status = "completed"
        hasScheduled ==
            \E i \in 1..Len(dayAppointments) :
                LET apt == dayAppointments[i] IN apt.status = "scheduled"
    IN  IF Len(dayAppointments) = 0 THEN NULL
        ELSE IF hasCompleted /\ hasScheduled THEN "mixed"
        ELSE IF hasCompleted THEN "completed"
        ELSE IF hasScheduled THEN "scheduled"
        ELSE "cancelled"

\* getAppointmentStatus with null for a day of no known status
getAppointmentStatus_NullFallback(appts, dateString) ==
    LET dayAppointments == getAppointmentsForDate(appts, dateString)
        hasCompleted ==
            \E i \in 1..Len(dayAppointments) :
                LET apt == dayAppointments[i] IN apt.status = "completed"
        hasScheduled ==
            \E i \in 1..Len(dayAppointments) :
                LET apt == dayAppointments[i]
                IN  apt.status = "scheduled" \/ apt.status = "confirmed"
        hasCancelled ==
            \E i \in 1..Len(dayAppointments) :
                LET apt == dayAppointments[i] IN apt.status = "cancelled"
    IN  IF Len(dayAppointments) = 0 THEN NULL
        ELSE IF hasCompleted /\ hasScheduled THEN "mixed"
        ELSE IF hasCompleted THEN "completed"
        ELSE IF hasScheduled THEN "scheduled"
        ELSE IF hasCancelled THEN "cancelled"
        ELSE NULL

\* getAppointmentStatus as a running fold that stops at the first appointment
\* of a known status, and reports mixed only when a completed one follows an
\* open one directly
getAppointmentStatus_Fold(appts, dateString) ==
    LET dayAppointments == getAppointmentsForDate(appts, dateString)
        known ==
            SelectSeq(dayAppointments,
                      LAMBDA apt :
                          apt.status \in {"completed", "scheduled", "confirmed"})
    IN  IF Len(dayAppointments) = 0 THEN NULL
        ELSE IF Len(known) = 0 THEN "cancelled"
        ELSE IF known[1].status = "completed" THEN "completed"
        ELSE IF Len(known) > 1 /\ known[2].status = "completed" THEN "mixed"
        ELSE "scheduled"

getAppointmentStatus(appts, dateString) ==
    LET dayAppointments == getAppointmentsForDate(appts, dateString)
        hasCompleted ==
            \E i \in 1..Len(dayAppointments) :
                LET apt == dayAppointments[i] IN apt.status = "completed"
        hasScheduled ==
            \E i \in 1..Len(dayAppointments) :
                LET apt == dayAppointments[i]
                IN  apt.status = "scheduled" \/ apt.status = "confirmed"
    IN  IF Len(dayAppointments) = 0 THEN NULL
        ELSE IF hasCompleted /\ hasScheduled THEN "mixed"
        ELSE IF hasCompleted THEN "completed"
        ELSE IF hasScheduled THEN "scheduled"
        ELSE "cancelled"

\* getAppointmentDotColor with the grey of getStatusBadgeStyle as the default
getAppointmentDotColor_GreyDefault(status) ==
    CASE status = "completed" -> "#10B981"
      [] status = "scheduled" -> "#F59E0B"
      [] status = "mixed" -> "#8B5CF6"
      [] status = "cancelled" -> "#EF4444"
      [] OTHER -> "#6B7280"

getAppointmentDotColor(status) ==
    CASE status = "completed" -> "#10B981"
      [] status = "scheduled" -> "#F59E0B"
      [] status = "mixed" -> "#8B5CF6"
      [] status = "cancelled" -> "#EF4444"
      [] OTHER -> "#EF4444"

----------------------------------------------------------------------------
(* renderCalendar: the array days, built by the two loops of the source.   *)

EmptyCell(i) == [kind |-> "empty", key |-> i]

\* the day cell with the selection folded into hasApt
DayCell_HasAptUnlessSelected(year, month, appts, selected, day) ==
    LET dateString == formatDate(year, month, day)
        isSelected == (selected = dateString)
        hasApt == hasAppointment(appts, dateString) /\ ~isSelected
        appointmentStatus == getAppointmentStatus(appts, dateString)
    IN  [kind |-> "day", day |-> day, dateString |-> dateString,
         hasApt |-> hasApt, appointmentStatus |-> appointmentStatus,
         isSelected |-> isSelected,
         dot |-> IF hasApt
                 THEN getAppointmentDotColor(appointmentStatus) ELSE NULL]

DayCell(year, month, appts, selected, day) ==
    LET dateString == formatDate(year, month, day)
        hasApt == hasAppointment(appts, dateString)
        appointmentStatus == getAppointmentStatus(appts, dateString)
        isSelected == (selected = dateString)
    IN  [kind |-> "day", day |-> day, dateString |-> dateString,
         hasApt |-> hasApt, appointmentStatus |-> appointmentStatus,
         isSelected |-> isSelected,
         dot |-> IF hasApt /\ ~isSelected
                 THEN getAppointmentDotColor(appointmentStatus) ELSE NULL]

\* for (let i = 0; i < firstDayOfMonth; i++) days.push(<empty cell>)
RECURSIVE PushEmptyCells(_, _, _)
PushEmptyCells(days, i, firstDayOfMonth) ==
    IF i < firstDayOfMonth
    THEN PushEmptyCells(Append(days, EmptyCell(i)), i + 1, firstDayOfMonth)
    ELSE days

\* for (let day = 1; day <= daysInMonth; day++) days.push(<day cell>);
\* year and month are currentDate.getFullYear() and currentDate.getMonth(),
\* which the loop body reads anew, with the same result, in every round
\* the loop with the test day < daysInMonth
RECURSIVE PushDayCells_StopEarly(_, _, _, _, _, _, _)
PushDayCells_StopEarly(days, day, daysInMonth, year, month, appts, selected) ==
    IF day < daysInMonth
    THEN PushDayCells_StopEarly(
             Append(days, DayCell(year, month, appts, selected, day)),
             day + 1, daysInMonth, year, month, appts, selected)
    ELSE days

RECURSIVE PushDayCells(_, _, _, _, _, _, _)
PushDayCells(days, day, daysInMonth, year, month, appts, selected) ==
    IF day <= daysInMonth
    THEN PushDayCells(Append(days, DayCell(year, month, appts, selected, day)),
                      day + 1, daysInMonth, year, month, appts, selected)
    ELSE days

renderCalendar(date, appts, selected) ==
    LET daysInMonth == getDaysInMonth(date)
        firstDayOfMonth == getFirstDayOfMonth(date)
    IN  PushDayCells(PushEmptyCells(<<>>, 0, firstDayOfMonth), 1, daysInMonth,
                     getFullYear(date), getMonth(date), appts, selected)

----------------------------------------------------------------------------
(* Bounds of the model and the inputs drawn within them.                   *)

\* longest list of rows a fetch returns in Spec
MaxAppts == 3

\* longest list of rows a fetch returns in SpecKeys
MaxKeyRows == 2

\* SpecMonths displays every month of the years 2000 - YearSpan to
\* 2000 + YearSpan
YearSpan == 101

\* the day cells that are tapped
PressDays == {1}

\* values of the column status: the four of the type Appointment, one the
\* type does not know, and an absent one
StatusValues ==
    {"scheduled", "confirmed", "completed", "cancelled", "no_show", NULL}

\* appointment_date of the rows in Spec, as day numbers: 2023-12-01, inside
\* the displayed month, and 2024-01-01, outside
RowDays == {NewDate(2023, 11, 1), NewDate(2024, 0, 1)}

\* the device's clock at mount (new Date()) in Spec: 2023-12-15
StartDates == {NewDate(2023, 11, 15)}

\* the years whose months SpecKeys displays
KeyYears == {2023, 2024}

\* SpecScreen: the most queries in flight at once
MaxPending == 2

\* SpecScreen: the most alerts shown
MaxAlerts == 1

\* SpecScreen displays the months December 2023 to December 2023 + MonthSpan
MonthSpan == 3

\* the device's clock at mount in SpecScreen: 2023-12-31
ScreenStartDates == {NewDate(2023, 11, 31)}

\* the device's offset from UTC in minutes: UTC and India (+05:30)
TimeZones == {0, 330}

\* the table appointments in SpecScreen: four appointments of doctor-1, on
\* 2023-12-01 at 00:00 UTC, on 2023-12-31 at 10:00 UTC and at 20:00 UTC (in
\* a time zone east of UTC+4 the latter is on 2024-01-01) and on 2024-01-10
\* at 09:00 UTC, and one of doctor-2 on 2023-12-15 at 09:00 UTC
ScreenTable ==
    {[id |-> 1, doctor_id |-> "doctor-1", status |-> "completed",
      appointment_date |-> UTC(NewDate(2023, 11, 1), 0, 0)],
     [id |-> 2, doctor_id |-> "doctor-1", status |-> "scheduled",
      appointment_date |-> UTC(NewDate(2023, 11, 31), 600, 0)],
     [id |-> 3, doctor_id |-> "doctor-1", status |-> "confirmed",
      appointment_date |-> UTC(NewDate(2024, 0, 10), 540, 0)],
     [id |-> 4, doctor_id |-> "doctor-2", status |-> "cancelled",
      appointment_date |-> UTC(NewDate(2023, 11, 15), 540, 0)],
     [id |-> 5, doctor_id |-> "doctor-1", status |-> "scheduled",
      appointment_date |-> UTC(NewDate(2023, 11, 31), 1200, 0)]}

\* the filter tabs of the reports screen
FilterTabs == {"all", "urgent", "pending", "reviewed"}

\* the tabs that are tapped in SpecReports
PressedTabs == {"all", "pending", "reviewed"}

\* SpecReports: the most fetchReports queries in flight at once
MaxReportRequests == 4

\* SpecReports: the most updateReportStatus calls in flight at once
MaxUpdates == 1

\* SpecDownload: the most runs of handleDownload under way at once
MaxDownloads == 2

\* the table reports: two pending reports and an urgent one of doctor-1,
\* and a pending one of doctor-2
ReportsTable ==
    {[id |-> "r1", doctor_id |-> "doctor-1", status |-> "pending",
      upload_date |-> 3, reviewed_date |-> NULL],
     [id |-> "r2", doctor_id |-> "doctor-1", status |-> "urgent",
      upload_date |-> 2, reviewed_date |-> NULL],
     [id |-> "r3", doctor_id |-> "doctor-1", status |-> "pending",
      upload_date |-> 1, reviewed_date |-> NULL],
     [id |-> "r4", doctor_id |-> "doctor-2", status |-> "pending",
      upload_date |-> 4, reviewed_date |-> NULL]}

\* the rows of a query result, each a pair <<appointment_date, status>>:
\* the query orders them by appointment_date ascending
RowLists(days, statuses, maxLen) ==
    {list \in UNION {[1..n -> days \X statuses] : n \in 0..maxLen} :
        \A i \in 1..Len(list) : \A j \in i..Len(list) :
            list[i][1] <= list[j][1]}

\* ids are unique, here the row's position; the appointment is at 00:00 UTC
\* of its day
Rows(list) ==
    [i \in 1..Len(list) |->
        [id |-> i, doctor_id |-> "doctor-1",
         appointment_date |-> list[i][1] * MinutesPerDay,
         status |-> list[i][2]]]

\* data.map(apt => ({ id, date: new Date(apt.appointment_date)
\*                      .toISOString().split('T')[0], status, ... }))
formattedAppointments(data) ==
    [i \in 1..Len(data) |->
        [id |-> data[i].id, date |-> ISODate(Day(data[i].appointment_date)),
         status |-> data[i].status, doctor_id |-> data[i].doctor_id]]

\* the query fetchAppointments sends for the month of date: firstDay and
\* lastDay are local midnights, sent as instants by toISOString()
fetchRequest(date, doctor, tza) ==
    [doctor_id |-> doctor,
     firstDay |-> UTC(NewDate(getFullYear(date), getMonth(date), 1), 0, tza),
     lastDay |-> UTC(NewDate(getFullYear(date), getMonth(date) + 1, 0), 0, tza)]

\* .eq('doctor_id', doctorId).gte('appointment_date', firstDay)
\* .lte('appointment_date', lastDay)
Matches(row, request) ==
    /\ row.doctor_id = request.doctor_id
    /\ row.appointment_date >= request.firstDay
    /\ row.appointment_date <= request.lastDay

\* .order('appointment_date', { ascending: true }); rows of one instant in
\* the order of their ids
RECURSIVE OrderRows(_)
OrderRows(rows) ==
    IF rows = {} THEN <<>>
    ELSE LET first == CHOOSE r \in rows : \A q \in rows :
                          \/ r.appointment_date < q.appointment_date
                          \/ /\ r.appointment_date = q.appointment_date
                             /\ r.id <= q.id
         IN  <<first>> \o OrderRows(rows \ {first})

\* the rows the server returns for a request
QueryResult(table, request) ==
    OrderRows({row \in table : Matches(row, request)})

\* a sequence without its element k
Without(seq, k) == SubSeq(seq, 1, k - 1) \o SubSeq(seq, k + 1, Len(seq))

----------------------------------------------------------------------------
(* The screen.  Every handler ends with React's re-render, which rebuilds  *)
(* the grid from the new state.                                            *)

\* the reports screen is not on display: its state has its initial values
\* and nothing of it is under way
ReportsNotMounted ==
    /\ reports = <<>>
    /\ reportsLoading = TRUE
    /\ error = NULL
    /\ filterStatus = "all"
    /\ downloadingId = NULL
    /\ user = "doctor-1"
    /\ reportsTable = {}
    /\ reportRequests = [tab \in FilterTabs |-> 0]
    /\ updateRequests = <<>>
    /\ downloads = <<>>

\* the patients screen is not on display
PatientsNotMounted ==
    /\ patients = <<>>
    /\ patientsLoading = FALSE
    /\ prescriptionsTable = {}
    /\ patientRequests = 0

\* the side menu is not on display
MenuNotMounted ==
    /\ isVisible = FALSE
    /\ activeItem = "home"
    /\ stack = <<>>
    /\ calls = <<>>

\* no call in flight and no alert shown, on a device at UTC, the table
\* holding the rows data
Settled(data) ==
    /\ localTZA = 0
    /\ appointmentsTable = {data[i] : i \in 1..Len(data)}
    /\ authPending = FALSE
    /\ requests = <<>>
    /\ alerts = <<>>
    /\ ReportsNotMounted
    /\ PatientsNotMounted
    /\ MenuNotMounted

\* the screen once the doctor is known and a fetch has delivered its rows
Init ==
    /\ currentDate \in StartDates
    /\ selectedDate = NullDate
    /\ \E list \in RowLists(RowDays, StatusValues, MaxAppts) :
           /\ appointments = formattedAppointments(Rows(list))
           /\ Settled(Rows(list))
    /\ loading = FALSE
    /\ doctorId = "doctor-1"
    /\ cells = renderCalendar(currentDate, appointments, selectedDate)

\* as Init, for every month of 2 * YearSpan + 1 years, the clock standing at
\* a day of the month that differs from month to month (28 down to 17), with
\* no appointment or one on the 1st of the month
InitMonths ==
    /\ \E y \in (2000 - YearSpan)..(2000 + YearSpan), m \in 0..11 :
           currentDate = NewDate(y, m, 28 - m)
    /\ selectedDate = NullDate
    /\ \E list \in RowLists({NewDate(getFullYear(currentDate),
                                     getMonth(currentDate), 1)},
                            {"scheduled"}, 1) :
           /\ appointments = formattedAppointments(Rows(list))
           /\ Settled(Rows(list))
    /\ loading = FALSE
    /\ doctorId = "doctor-1"
    /\ cells = renderCalendar(currentDate, appointments, selectedDate)

\* as Init, for every month of the years KeyYears, with appointments on the
\* first and the last day of the month and on the first day of the next one
InitKeys ==
    /\ \E y \in KeyYears, m \in 0..11 : currentDate = NewDate(y, m, 15)
    /\ selectedDate = NullDate
    /\ \E list \in RowLists({NewDate(getFullYear(currentDate),
                                     getMonth(currentDate), 1),
                             NewDate(getFullYear(currentDate),
                                     getMonth(currentDate) + 1, 0),
                             NewDate(getFullYear(currentDate),
                                     getMonth(currentDate) + 1, 1)},
                            {"scheduled"}, MaxKeyRows) :
           /\ appointments = formattedAppointments(Rows(list))
           /\ Settled(Rows(list))
    /\ loading = FALSE
    /\ doctorId = "doctor-1"
    /\ cells = renderCalendar(currentDate, appointments, selectedDate)

\* pressDay with a build of the grid that keeps the filtered list of the
\* tapped day in place of the appointment list
pressDay_FilterInPlace(i) ==
    /\ cells[i].kind = "day"
    /\ cells[i].day \in PressDays
    /\ selectedDate' = cells[i].dateString
    /\ appointments' = getAppointmentsForDate(appointments, selectedDate')
    /\ UNCHANGED <<currentDate, loading, doctorId>>
    /\ UNCHANGED <<environmentVars, reportsVars, patientsVars, menuVars>>
    /\ cells' = renderCalendar(currentDate', appointments', selectedDate')

\* onPress of a day cell: setSelectedDate(dateString)
pressDay(i) ==
    /\ cells[i].kind = "day"
    /\ cells[i].day \in PressDays
    /\ selectedDate' = cells[i].dateString
    /\ UNCHANGED <<currentDate, appointments, loading, doctorId>>
    /\ UNCHANGED <<environmentVars, reportsVars, patientsVars, menuVars>>
    /\ cells' = renderCalendar(currentDate', appointments', selectedDate')

Next == \E i \in 1..Len(cells) : pressDay(i)

\* the screen at mount: getCurrentUser is under way, nothing is fetched yet
InitScreen ==
    /\ currentDate \in ScreenStartDates
    /\ selectedDate = NullDate
    /\ appointments = <<>>
    /\ loading = TRUE
    /\ doctorId = NULL
    /\ cells = renderCalendar(currentDate, appointments, selectedDate)
    /\ localTZA \in TimeZones
    /\ appointmentsTable = ScreenTable
    /\ authPending = TRUE
    /\ requests = <<>>
    /\ alerts = <<>>
    /\ ReportsNotMounted
    /\ PatientsNotMounted
    /\ MenuNotMounted

\* the effect on [doctorId, currentDate], run after a handler has set one of
\* them: if (doctorId) fetchAppointments(), up to its await
fetchAppointmentsEffect ==
    IF doctorId' # NULL
    THEN /\ loading' = TRUE
         /\ requests' = Append(requests,
                               fetchRequest(currentDate', doctorId', localTZA))
    ELSE UNCHANGED <<loading, requests>>

\* supabase.auth.getUser() resolves, with a user (here authUser, the
\* source's user.id) or with none
getCurrentUser(authUser) ==
    /\ authPending
    /\ authPending' = FALSE
    /\ UNCHANGED <<currentDate, selectedDate, appointments>>
    /\ IF authUser # NULL
       THEN doctorId' = authUser /\ fetchAppointmentsEffect
       ELSE UNCHANGED <<doctorId, loading, requests>>
    /\ UNCHANGED <<localTZA, appointmentsTable, alerts>>
    /\ UNCHANGED <<reportsVars, patientsVars, menuVars>>
    /\ cells' = renderCalendar(currentDate', appointments', selectedDate')

\* supabase.auth.getUser() rejects
getCurrentUserFailed ==
    /\ authPending
    /\ authPending' = FALSE
    /\ alerts' = Append(alerts, "Failed to get user information")
    /\ UNCHANGED calendarVars
    /\ UNCHANGED <<localTZA, appointmentsTable, requests>>
    /\ UNCHANGED <<reportsVars, patientsVars, menuVars>>

\* new Date(new Date().toDateString()): the local day of the clock, which
\* stays on the day the screen was opened
Today == CHOOSE d \in ScreenStartDates : TRUE

\* appointments.filter(apt => new Date(apt.date + 'T00:00:00') >= today)
\*     .slice(0, 10)
upcomingAppointments(appts) ==
    LET upcoming(apt) == parseLocalDate(apt.date) >= Today
        filtered == SelectSeq(appts, upcoming)
    IN  SubSeq(filtered, 1, IF Len(filtered) < 10 THEN Len(filtered) ELSE 10)

\* onPress of an upcoming-appointment card: setSelectedDate(appointment.date)
pressUpcoming(i) ==
    /\ i \in 1..Len(upcomingAppointments(appointments))
    /\ selectedDate' = upcomingAppointments(appointments)[i].date
    /\ UNCHANGED <<currentDate, appointments, loading, doctorId>>
    /\ UNCHANGED <<environmentVars, reportsVars, patientsVars, menuVars>>
    /\ cells' = renderCalendar(currentDate', appointments', selectedDate')

\* the months since December 2023, the first month the model displays
MonthIndex(date) == 12 * (getFullYear(date) - 2023) + getMonth(date) - 11

navigateMonth(direction) ==
    LET prev == currentDate
        newDate == IF direction = "prev"
                   THEN setMonth(prev, getMonth(prev) - 1)
                   ELSE setMonth(prev, getMonth(prev) + 1)
    IN  /\ MonthIndex(newDate) \in 0..MonthSpan
        /\ Len(requests) < MaxPending
        /\ currentDate' = newDate
        /\ selectedDate' = NullDate
        /\ UNCHANGED <<appointments, doctorId>>
        /\ fetchAppointmentsEffect
        /\ UNCHANGED <<localTZA, appointmentsTable, authPending, alerts>>
        /\ UNCHANGED <<reportsVars, patientsVars, menuVars>>
        /\ cells' = renderCalendar(currentDate', appointments', selectedDate')

\* the query of request k returns its rows: fetchAppointments after its await
fetchAppointmentsDone(k) ==
    LET data == QueryResult(appointmentsTable, requests[k])
    IN  /\ appointments' = formattedAppointments(data)
        /\ loading' = FALSE
        /\ requests' = Without(requests, k)
        /\ UNCHANGED <<currentDate, selectedDate, doctorId>>
        /\ UNCHANGED <<localTZA, appointmentsTable, authPending, alerts>>
        /\ UNCHANGED <<reportsVars, patientsVars, menuVars>>
        /\ cells' = renderCalendar(currentDate', appointments', selectedDate')

fetchAppointmentsFailed_ClearsList(k) ==
    /\ Len(alerts) < MaxAlerts
    /\ alerts' = Append(alerts, "Failed to fetch appointments")
    /\ loading' = FALSE
    /\ requests' = Without(requests, k)
    /\ appointments' = <<>>
    /\ UNCHANGED <<currentDate, selectedDate, doctorId>>
    /\ UNCHANGED <<localTZA, appointmentsTable, authPending>>
    /\ UNCHANGED <<reportsVars, patientsVars, menuVars>>
    /\ cells' = renderCalendar(currentDate', appointments', selectedDate')

\* the query of request k returns an error: catch and finally
fetchAppointmentsFailed(k) ==
    /\ Len(alerts) < MaxAlerts
    /\ alerts' = Append(alerts, "Failed to fetch appointments")
    /\ loading' = FALSE
    /\ requests' = Without(requests, k)
    /\ UNCHANGED <<currentDate, selectedDate, appointments, doctorId>>
    /\ UNCHANGED <<localTZA, appointmentsTable, authPending>>
    /\ UNCHANGED <<reportsVars, patientsVars, menuVars>>
    /\ cells' = renderCalendar(currentDate', appointments', selectedDate')

NextScreen ==
    \/ \E authUser \in {"doctor-1", NULL} : getCurrentUser(authUser)
    \/ getCurrentUserFailed
    \/ \E direction \in {"prev", "next"} : navigateMonth(direction)
    \/ \E k \in 1..Len(requests) : fetchAppointmentsDone(k)
    \/ \E k \in 1..Len(requests) : fetchAppointmentsFailed(k)
    \/ \E i \in 1..Len(cells) : pressDay(i)
    \/ \E i \in 1..Len(appointments) : pressUpcoming(i)

\* the screen where every call that is under way resolves in the end:
\* supabase.auth.getUser() and each query of fetchAppointments
\* a step in which supabase.auth.getUser() resolves or rejects: the steps
\* getCurrentUser and getCurrentUserFailed, and no other
lookupResolves == authPending /\ authPending' = FALSE

\* a step in which a query of fetchAppointments returns: the steps
\* fetchAppointmentsDone and fetchAppointmentsFailed, and no other
fetchResolves == \E k \in 1..Len(requests) : requests' = Without(requests, k)

SpecScreenFair ==
    /\ InitScreen /\ [][NextScreen]_vars
    /\ WF_authPending(lookupResolves)
    /\ WF_requests(fetchResolves)

----------------------------------------------------------------------------
(* The reports screen (ReportsScreen, from line 772 of the same file).     *)

\* the calendar screen is not on display
CalendarNotMounted ==
    /\ currentDate \in ScreenStartDates
    /\ selectedDate = NullDate
    /\ appointments = <<>>
    /\ loading = TRUE
    /\ doctorId = NULL
    /\ cells = <<>>
    /\ localTZA = 0
    /\ appointmentsTable = {}
    /\ authPending = FALSE
    /\ requests = <<>>

\* .order('upload_date', { ascending: false }); reports of one upload_date
\* in some fixed order
RECURSIVE OrderReports(_)
OrderReports(rows) ==
    IF rows = {} THEN <<>>
    ELSE LET first == CHOOSE r \in rows :
                          \A q \in rows : r.upload_date >= q.upload_date
         IN  <<first>> \o OrderReports(rows \ {first})

\* the rows of the query of fetchReports: .eq('doctor_id', user.id) and,
\* when the tab is not 'all', .eq('status', filterStatus)
ReportsQuery(table, doctor, tab) ==
    OrderReports({r \in table :
                     r.doctor_id = doctor /\ (tab = "all" \/ r.status = tab)})

\* the number of fetchReports queries in flight
ReportsInFlight ==
    reportRequests["all"] + reportRequests["urgent"]
        + reportRequests["pending"] + reportRequests["reviewed"]

\* fetchReports up to its await, called n times in a row for the tab: with
\* no user it returns at once, through finally
fetchReportsCalls(n, tab) ==
    IF user = NULL
    THEN /\ reportsLoading' = FALSE
         /\ error' = "User not authenticated"
         /\ UNCHANGED reportRequests
    ELSE /\ reportsLoading' = TRUE
         /\ error' = NULL
         /\ reportRequests' = [reportRequests EXCEPT ![tab] = @ + n]

\* a tap on a filter tab: setFilterStatus(status); a new filterStatus makes
\* a new fetchReports, which both the effect and the focus effect call
handleFilterPress(status) ==
    /\ ReportsInFlight + 2 <= MaxReportRequests
    /\ filterStatus' = status
    /\ IF status # filterStatus
       THEN fetchReportsCalls(2, status)
       ELSE UNCHANGED <<reportsLoading, error, reportRequests>>
    /\ UNCHANGED <<reports, downloadingId, user, reportsTable,
                   updateRequests, downloads>>
    /\ UNCHANGED <<calendarVars, environmentVars, patientsVars, menuVars>>

\* the screen comes into focus again: the focus effect calls fetchReports
screenFocused ==
    /\ ReportsInFlight + 1 <= MaxReportRequests
    /\ fetchReportsCalls(1, filterStatus)
    /\ UNCHANGED <<reports, filterStatus, downloadingId, user, reportsTable,
                   updateRequests, downloads>>
    /\ UNCHANGED <<calendarVars, environmentVars, patientsVars, menuVars>>

\* a tap on Retry, shown with the error
pressRetry ==
    /\ error # NULL
    /\ ReportsInFlight + 1 <= MaxReportRequests
    /\ fetchReportsCalls(1, filterStatus)
    /\ UNCHANGED <<reports, filterStatus, downloadingId, user, reportsTable,
                   updateRequests, downloads>>
    /\ UNCHANGED <<calendarVars, environmentVars, patientsVars, menuVars>>

\* a query issued for the tab returns its rows: fetchReports after its await
fetchReportsDone(tab) ==
    /\ reportRequests[tab] > 0
    /\ reportRequests' = [reportRequests EXCEPT ![tab] = @ - 1]
    /\ reports' = ReportsQuery(reportsTable, user, tab)
    /\ reportsLoading' = FALSE
    /\ UNCHANGED <<error, filterStatus, downloadingId, user, reportsTable,
                   updateRequests, downloads>>
    /\ UNCHANGED <<calendarVars, environmentVars, patientsVars, menuVars>>

\* a query issued for the tab returns an error: catch and finally
fetchReportsFailed(tab) ==
    /\ reportRequests[tab] > 0
    /\ reportRequests' = [reportRequests EXCEPT ![tab] = @ - 1]
    /\ error' = "Failed to fetch reports"
    /\ reportsLoading' = FALSE
    /\ UNCHANGED <<reports, filterStatus, downloadingId, user, reportsTable,
                   updateRequests, downloads>>
    /\ UNCHANGED <<calendarVars, environmentVars, patientsVars, menuVars>>

\* a tap on Mark Reviewed, shown on a report whose status is pending:
\* updateReportStatus(reportId, 'reviewed') up to its await
handleReviewReport(i) ==
    /\ reports[i].status = "pending"
    /\ Len(updateRequests) < MaxUpdates
    /\ updateRequests' =
           Append(updateRequests, [id |-> reports[i].id, status |-> "reviewed"])
    /\ UNCHANGED <<reports, reportsLoading, error, filterStatus, downloadingId,
                   user, reportsTable, reportRequests, downloads>>
    /\ UNCHANGED <<calendarVars, environmentVars, patientsVars, menuVars>>

Updated_EveryReport(report, request) ==
    [report EXCEPT !.status = request.status,
                   !.reviewed_date =
                       IF request.status = "reviewed" THEN "now" ELSE NULL]

\* a report as the update of request leaves it
Updated(report, request) ==
    IF report.id = request.id
    THEN [report EXCEPT !.status = request.status,
                        !.reviewed_date =
                            IF request.status = "reviewed" THEN "now" ELSE NULL]
    ELSE report

\* the update k is done on the server: updateReportStatus after its await
updateReportStatusDone(k) ==
    /\ reportsTable' = {Updated(r, updateRequests[k]) : r \in reportsTable}
    /\ reports' =
           [i \in 1..Len(reports) |-> Updated(reports[i], updateRequests[k])]
    /\ updateRequests' = Without(updateRequests, k)
    /\ UNCHANGED <<reportsLoading, error, filterStatus, downloadingId, user,
                   reportRequests, downloads>>
    /\ UNCHANGED <<calendarVars, environmentVars, patientsVars, menuVars>>

\* the update k fails: catch
updateReportStatusFailed(k) ==
    /\ Len(alerts) < MaxAlerts
    /\ alerts' = Append(alerts, "Failed to update report status")
    /\ updateRequests' = Without(updateRequests, k)
    /\ UNCHANGED <<reports, reportsLoading, error, filterStatus, downloadingId,
                   user, reportsTable, reportRequests, downloads>>
    /\ UNCHANGED <<calendarVars, patientsVars, menuVars>>
    /\ UNCHANGED <<localTZA, appointmentsTable, authPending, requests>>

\* a tap on Download of the listed report i, enabled unless downloadingId is
\* the report's id: handleDownload up to its first await, inside getSignedUrl
handleDownload(i) ==
    /\ downloadingId # reports[i].id
    /\ Len(downloads) < MaxDownloads
    /\ downloadingId' = reports[i].id
    /\ downloads' =
           Append(downloads, [report |-> reports[i].id, pc |-> "createSignedUrl"])
    /\ UNCHANGED <<reports, reportsLoading, error, filterStatus, user,
                   reportsTable, reportRequests, updateRequests>>
    /\ UNCHANGED <<calendarVars, environmentVars, patientsVars, menuVars>>

\* the awaits of a run of handleDownload, in the order of the code: in
\* getSignedUrl, in handleDownload, and the two of shareFile
AwaitAfter(pc) ==
    CASE pc = "createSignedUrl" -> "downloadAsync"
      [] pc = "downloadAsync" -> "isAvailableAsync"
      [] pc = "isAvailableAsync" -> "shareAsync"

\* what the runs of handleDownload leave alone
DownloadFrame ==
    /\ UNCHANGED <<reports, reportsLoading, error, filterStatus, user,
                   reportsTable, reportRequests, updateRequests>>
    /\ UNCHANGED <<calendarVars, patientsVars, menuVars>>
    /\ UNCHANGED <<localTZA, appointmentsTable, authPending, requests>>

\* downloadEnds with setDownloadingId(null) as the last statement of the try
\* block instead of a finally block: the catch of handleDownload skips it
downloadEnds_NoFinally(k, alert) ==
    /\ downloads' = Without(downloads, k)
    /\ downloadingId' = IF alert = "Download Error" THEN downloadingId ELSE NULL
    /\ alerts' = IF alert = NULL THEN alerts ELSE Append(alerts, alert)
    /\ DownloadFrame

\* the run k ends, with the alert of its last step, if any:
\* finally { setDownloadingId(null) }
downloadEnds(k, alert) ==
    /\ downloads' = Without(downloads, k)
    /\ downloadingId' = NULL
    /\ alerts' = IF alert = NULL THEN alerts ELSE Append(alerts, alert)
    /\ DownloadFrame

\* the await of the run k resolves: createSignedUrl with a URL,
\* downloadAsync with the file, isAvailableAsync with true
downloadContinues(k) ==
    /\ downloads[k].pc # "shareAsync"
    /\ downloads' = [downloads EXCEPT ![k].pc = AwaitAfter(@)]
    /\ UNCHANGED <<downloadingId, alerts>>
    /\ DownloadFrame

\* shareAsync resolves: shareFile returns and handleDownload ends
shareDone(k) ==
    /\ downloads[k].pc = "shareAsync"
    /\ downloadEnds(k, NULL)

\* isAvailableAsync resolves with false: the alert of shareFile's else branch
sharingNotAvailable(k) ==
    /\ downloads[k].pc = "isAvailableAsync"
    /\ Len(alerts) < MaxAlerts
    /\ downloadEnds(k, "Sharing not available")

\* createSignedUrl returns an error or downloadAsync rejects: the catch of
\* handleDownload
downloadFailed(k) ==
    /\ downloads[k].pc \in {"createSignedUrl", "downloadAsync"}
    /\ Len(alerts) < MaxAlerts
    /\ downloadEnds(k, "Download Error")

\* isAvailableAsync or shareAsync rejects: the catch of shareFile, which
\* throws nothing on to handleDownload
shareFailed(k) ==
    /\ downloads[k].pc \in {"isAvailableAsync", "shareAsync"}
    /\ Len(alerts) < MaxAlerts
    /\ downloadEnds(k, "Share Error")

\* the reports screen with the list of the tab 'all' fetched and nothing
\* under way
InitDownload ==
    /\ CalendarNotMounted
    /\ PatientsNotMounted
    /\ MenuNotMounted
    /\ alerts = <<>>
    /\ user = "doctor-1"
    /\ reportsTable = ReportsTable
    /\ \E tab \in FilterTabs :
           /\ filterStatus = tab
           /\ reports = ReportsQuery(reportsTable, user, tab)
    /\ downloadingId = NULL
    /\ reportsLoading = FALSE
    /\ error = NULL
    /\ reportRequests = [tab \in FilterTabs |-> 0]
    /\ updateRequests = <<>>
    /\ downloads = <<>>

NextDownload ==
    \/ \E i \in 1..Len(reports) : handleDownload(i)
    \/ \E k \in 1..Len(downloads) : downloadContinues(k)
    \/ \E k \in 1..Len(downloads) : shareDone(k)
    \/ \E k \in 1..Len(downloads) : sharingNotAvailable(k)
    \/ \E k \in 1..Len(downloads) : downloadFailed(k)
    \/ \E k \in 1..Len(downloads) : shareFailed(k)

\* the reports screen at mount: the effect and the focus effect have each
\* called fetchReports
InitReports ==
    /\ CalendarNotMounted
    /\ PatientsNotMounted
    /\ MenuNotMounted
    /\ alerts = <<>>
    /\ reports = <<>>
    /\ filterStatus = "all"
    /\ downloadingId = NULL
    /\ user \in {"doctor-1", NULL}
    /\ reportsTable = ReportsTable
    /\ reportsLoading = (user # NULL)
    /\ error = IF user = NULL THEN "User not authenticated" ELSE NULL
    /\ reportRequests =
           [tab \in FilterTabs |-> IF tab = "all" /\ user # NULL THEN 2 ELSE 0]
    /\ updateRequests = <<>>
    /\ downloads = <<>>

NextReports ==
    \/ \E status \in PressedTabs : handleFilterPress(status)
    \/ screenFocused
    \/ pressRetry
    \/ \E tab \in FilterTabs : fetchReportsDone(tab)
    \/ \E tab \in FilterTabs : fetchReportsFailed(tab)
    \/ \E i \in 1..Len(reports) : handleReviewReport(i)
    \/ \E k \in 1..Len(updateRequests) : updateReportStatusDone(k)
    \/ \E k \in 1..Len(updateRequests) : updateReportStatusFailed(k)

----------------------------------------------------------------------------

Spec == Init /\ [][Next]_vars

SpecMonths == InitMonths /\ [][Next]_vars

SpecKeys == InitKeys /\ [][Next]_vars

SpecScreen == InitScreen /\ [][NextScreen]_vars

SpecReports == InitReports /\ [][NextReports]_vars

SpecDownload == InitDownload /\ [][NextDownload]_vars

----------------------------------------------------------------------------
(* The patients screen (PatientsScreen, from line 1566 of the same file).  *)

MaxPrescriptions == 3

PatientIds == {"p1", "p2"}

\* created_at is a timestamp with microseconds; a Date holds milliseconds
MicrosPerMilli == 1000

CreatedAts == {999, 1000, 1001}

\* the table prescriptions: the listed prescriptions of doctor-1, and one
\* of another doctor
Prescriptions(list) ==
    {[id |-> i, patient_id |-> list[i][1], created_at |-> list[i][2],
      doctor_id |-> "doctor-1"] : i \in 1..Len(list)}
    \cup {[id |-> 0, patient_id |-> "p1", created_at |-> 1000,
           doctor_id |-> "doctor-2"]}

\* .order('created_at', { ascending: false }); rows of one created_at in
\* some fixed order
RECURSIVE OrderPrescriptions(_)
OrderPrescriptions(rows) ==
    IF rows = {} THEN <<>>
    ELSE LET first == CHOOSE r \in rows :
                          \A q \in rows : r.created_at >= q.created_at
         IN  <<first>> \o OrderPrescriptions(rows \ {first})

\* the rows of the query of fetchPatientsWithPrescriptions
PrescriptionsQuery(table, doctor) ==
    OrderPrescriptions({r \in table : r.doctor_id = doctor})

\* new Date(date).getTime()
getTime(date) == date \div MicrosPerMilli

compareHistory_Ascending(a, b) == getTime(a.date) - getTime(b.date)

\* the comparator of history.sort
compareHistory(a, b) == getTime(b.date) - getTime(a.date)

\* Array.prototype.sort with compareHistory on the first n entries: the
\* sort is stable, an entry goes behind those that do not compare after it
RECURSIVE historySort(_, _)
historySort(history, n) ==
    IF n = 0 THEN <<>>
    ELSE LET sorted == historySort(history, n - 1)
             entry == history[n]
             before == {j \in 1..Len(sorted) :
                           compareHistory(sorted[j], entry) <= 0}
             k == IF before = {} THEN 0
                  ELSE CHOOSE j \in before : \A x \in before : x <= j
         IN  SubSeq(sorted, 1, k) \o <<entry>>
                 \o SubSeq(sorted, k + 1, Len(sorted))

\* prescriptions.forEach from prescription i on: patientMap holds the
\* patients in the order of their insertion
RECURSIVE patientMapFrom(_, _, _)
patientMapFrom(prescriptions, i, patientMap) ==
    IF i > Len(prescriptions) THEN patientMap
    ELSE LET prescription == prescriptions[i]
             patientId == prescription.patient_id
             known == \E j \in 1..Len(patientMap) :
                          patientMap[j].id = patientId
             withPatient ==
                 IF known THEN patientMap
                 ELSE Append(patientMap,
                             [id |-> patientId,
                              lastVisit |-> prescription.created_at,
                              history |-> <<>>])
             pushed ==
                 [j \in 1..Len(withPatient) |->
                     IF withPatient[j].id = patientId
                     THEN [withPatient[j] EXCEPT !.history =
                              Append(@, [id |-> prescription.id,
                                         date |-> prescription.created_at])]
                     ELSE withPatient[j]]
         IN  patientMapFrom(prescriptions, i + 1, pushed)

\* Object.values(patientMap).map(...): each history sorted
patientsArray(prescriptions) ==
    LET patientMap == patientMapFrom(prescriptions, 1, <<>>)
    IN  [j \in 1..Len(patientMap) |->
            [patientMap[j] EXCEPT !.history = historySort(@, Len(@))]]

\* the query returns its rows: fetchPatientsWithPrescriptions after its
\* await, to finally
fetchPatientsDone ==
    /\ patientRequests > 0
    /\ patientRequests' = patientRequests - 1
    /\ patients' = patientsArray(PrescriptionsQuery(prescriptionsTable, user))
    /\ patientsLoading' = FALSE
    /\ UNCHANGED prescriptionsTable
    /\ UNCHANGED <<calendarVars, environmentVars, reportsVars, menuVars>>

\* the query returns an error or throws: the list is left as it is
fetchPatientsFailed ==
    /\ patientRequests > 0
    /\ patientRequests' = patientRequests - 1
    /\ patientsLoading' = FALSE
    /\ UNCHANGED <<patients, prescriptionsTable>>
    /\ UNCHANGED <<calendarVars, environmentVars, reportsVars, menuVars>>

\* the screen as mounted with a user: the effect has called
\* fetchPatientsWithPrescriptions, which waits for its query
InitPatients ==
    /\ CalendarNotMounted
    /\ alerts = <<>>
    /\ ReportsNotMounted
    /\ MenuNotMounted
    /\ patients = <<>>
    /\ patientsLoading = TRUE
    /\ patientRequests = 1
    /\ \E n \in 0..MaxPrescriptions :
           \E list \in [1..n -> PatientIds \X CreatedAts] :
               prescriptionsTable = Prescriptions(list)

NextPatients ==
    \/ fetchPatientsDone
    \/ fetchPatientsFailed

SpecPatients == InitPatients /\ [][NextPatients]_vars

----------------------------------------------------------------------------
(* The side menu (SideMenuBar, src/app/(patient)/sideMenu.tsx).            *)

\* SpecMenu: the most routes on the router's stack
MaxStack == 3

\* the id and the route of each menu item
menuItems ==
    <<[id |-> "profile", route |-> "/(patient)/profile"],
      [id |-> "doctors", route |-> "/(patient)/doctors"],
      [id |-> "settings", route |-> "/(patient)/settings"],
      [id |-> "about", route |-> "/about"],
      [id |-> "emergency", route |-> "/sos"]>>

\* the props and the router as a run of handleNavigation finds them
menuState ==
    [isVisible |-> isVisible, activeItem |-> activeItem, stack |-> stack,
     calls |-> <<>>]

\* setActiveItem(item.id)
setActiveItem(st, id) ==
    [st EXCEPT !.activeItem = id,
               !.calls = Append(@, [fn |-> "setActiveItem", arg |-> id])]

\* router.push(item.route) returns: the route is on top of the stack
routerPush(st, route) ==
    [st EXCEPT !.stack = Append(@, route),
               !.calls = Append(@, [fn |-> "router.push", arg |-> route])]

\* router.push(item.route) throws: the stack is as it was
routerPushThrows(st, route) ==
    [st EXCEPT !.calls = Append(@, [fn |-> "router.push", arg |-> route])]

\* onClose(): the parent hides the menu
onClose(st) ==
    [st EXCEPT !.isVisible = FALSE,
               !.calls = Append(@, [fn |-> "onClose", arg |-> NULL])]

\* the catch block: console.error, and nothing is thrown on
catchError(st) ==
    [st EXCEPT !.calls = Append(@, [fn |-> "console.error", arg |-> NULL])]

\* what handleNavigation leaves alone
MenuFrame ==
    UNCHANGED <<calendarVars, environmentVars, reportsVars, patientsVars>>

\* handleNavigation with onClose() in a finally block
handleNavigation_CloseInFinally(item, pushThrows) ==
    LET afterSet == setActiveItem(menuState, item.id)
        end == IF pushThrows
               THEN onClose(catchError(routerPushThrows(afterSet, item.route)))
               ELSE onClose(routerPush(afterSet, item.route))
    IN  /\ isVisible
        /\ pushThrows \/ Len(stack) < MaxStack
        /\ isVisible' = end.isVisible
        /\ activeItem' = end.activeItem
        /\ stack' = end.stack
        /\ calls' = end.calls
        /\ MenuFrame

\* onPress of a menu item: handleNavigation(item), where router.push
\* returns or throws
handleNavigation(item, pushThrows) ==
    LET afterSet == setActiveItem(menuState, item.id)
        end == IF pushThrows
               THEN catchError(routerPushThrows(afterSet, item.route))
               ELSE onClose(routerPush(afterSet, item.route))
    IN  /\ isVisible
        /\ pushThrows \/ Len(stack) < MaxStack
        /\ isVisible' = end.isVisible
        /\ activeItem' = end.activeItem
        /\ stack' = end.stack
        /\ calls' = end.calls
        /\ MenuFrame

\* onPress of the backdrop or of the close button, onRequestClose: onClose()
pressClose ==
    /\ isVisible
    /\ isVisible' = FALSE
    /\ UNCHANGED <<activeItem, stack, calls>>
    /\ MenuFrame

\* the parent shows the menu: the prop isVisible becomes true
openMenu ==
    /\ ~isVisible
    /\ isVisible' = TRUE
    /\ UNCHANGED <<activeItem, stack, calls>>
    /\ MenuFrame

\* the menu shown over the patient's home screen
InitMenu ==
    /\ CalendarNotMounted
    /\ alerts = <<>>
    /\ ReportsNotMounted
    /\ PatientsNotMounted
    /\ isVisible = TRUE
    /\ activeItem = "home"
    /\ stack = <<"/(patient)">>
    /\ calls = <<>>

NextMenu ==
    \/ \E i \in 1..Len(menuItems) :
           \E pushThrows \in BOOLEAN : handleNavigation(menuItems[i], pushThrows)
    \/ pressClose
    \/ openMenu

SpecMenu == InitMenu /\ [][NextMenu]_vars

----------------------------------------------------------------------------
(* What the properties below speak of.                                     *)

\* the date keys of the displayed month's day cells and of the appointments
DateKeys ==
    {cells[i].dateString : i \in {j \in 1..Len(cells) : cells[j].kind = "day"}}
        \cup {appointments[i].date : i \in 1..Len(appointments)}

\* the positions of the appointments of the list that fall on the day key
OnDay(key) == {i \in 1..Len(appointments) : appointments[i].date = key}

\* the statuses that occur among the appointments of the day key
StatusesOn(key) == {appointments[i].status : i \in OnDay(key)}

HasCompleted(key) == "completed" \in StatusesOn(key)

HasOpen(key) == StatusesOn(key) \cap {"scheduled", "confirmed"} # {}

\* C1: a day with at least one completed appointment and at least one
\* scheduled or confirmed appointment has the composite status mixed,
\* whatever else is on that day.
C1_MixedDay ==
    \A key \in DateKeys :
        (HasCompleted(key) /\ HasOpen(key))
            => getAppointmentStatus(appointments, key) = "mixed"

\* a day with a completed, an open and a cancelled appointment, shown mixed
C1_Witness ==
    \E i \in 1..Len(cells) :
        /\ cells[i].kind = "day"
        /\ cells[i].appointmentStatus = "mixed"
        /\ {"completed", "cancelled"} \subseteq StatusesOn(cells[i].dateString)
        /\ HasOpen(cells[i].dateString)

\* C2: a day with at least one completed appointment and no scheduled or
\* confirmed one has the composite status completed, cancelled appointments
\* on that day or not.
C2_CompletedDay ==
    \A key \in DateKeys :
        (HasCompleted(key) /\ ~HasOpen(key))
            => getAppointmentStatus(appointments, key) = "completed"

\* a day with a completed and a cancelled appointment, shown completed
C2_Witness ==
    \E i \in 1..Len(cells) :
        /\ cells[i].kind = "day"
        /\ cells[i].appointmentStatus = "completed"
        /\ StatusesOn(cells[i].dateString) = {"completed", "cancelled"}

\* C3: a day with no completed appointment and at least one scheduled or
\* confirmed one has the composite status scheduled; confirmed counts as
\* scheduled does.
C3_ScheduledDay ==
    \A key \in DateKeys :
        (~HasCompleted(key) /\ HasOpen(key))
            => getAppointmentStatus(appointments, key) = "scheduled"

\* a day whose only open appointments are confirmed ones, shown scheduled
C3_Witness ==
    \E i \in 1..Len(cells) :
        /\ cells[i].kind = "day"
        /\ cells[i].appointmentStatus = "scheduled"
        /\ "confirmed" \in StatusesOn(cells[i].dateString)
        /\ "scheduled" \notin StatusesOn(cells[i].dateString)

\* C4: a day with at least one appointment, none of them completed,
\* scheduled or confirmed (all cancelled, or of an unknown or absent
\* status), has the composite status cancelled: the aggregation has a value
\* for every such day.
C4_CancelledDay ==
    \A key \in DateKeys :
        (OnDay(key) # {} /\ ~HasCompleted(key) /\ ~HasOpen(key))
            => getAppointmentStatus(appointments, key) = "cancelled"

\* a day whose appointments all have an unknown or an absent status, shown
\* cancelled
C4_Witness ==
    \E i \in 1..Len(cells) :
        /\ cells[i].kind = "day"
        /\ cells[i].appointmentStatus = "cancelled"
        /\ StatusesOn(cells[i].dateString) = {"no_show", NULL}

\* C5: for every day of the displayed month, hasAppointment is false exactly
\* when no appointment of the list has the day's date key, and exactly then
\* the composite status is null; a day with an appointment has one of the
\* four composite statuses.
C5_HasAppointment ==
    \A i \in 1..Len(cells) :
        cells[i].kind = "day" =>
            /\ cells[i].hasApt \in BOOLEAN
            /\ (cells[i].hasApt = FALSE) <=> (OnDay(cells[i].dateString) = {})
            /\ (cells[i].hasApt = FALSE) <=> (cells[i].appointmentStatus = NULL)
            /\ cells[i].hasApt =>
                   cells[i].appointmentStatus
                       \in {"completed", "scheduled", "mixed", "cancelled"}

\* a month with one day of exactly one appointment and one day of none, while
\* the list also holds an appointment of another day
C5_Witness ==
    \E i, j \in 1..Len(cells) :
        /\ cells[i].kind = "day" /\ cells[j].kind = "day"
        /\ cells[i].hasApt /\ Cardinality(OnDay(cells[i].dateString)) = 1
        /\ ~cells[j].hasApt /\ cells[j].appointmentStatus = NULL
        /\ Len(appointments) > 1

\* the list appts in the order p, a permutation of its positions
Permuted(appts, p) == [i \in 1..Len(appts) |-> appts[p[i]]]

\* C6: the composite status of a day depends only on the statuses of the
\* day's appointments, not on their order: every permutation of the
\* appointment list gives every day the same composite status.
C6_OrderIndependent ==
    \A p \in Permutations(1..Len(appointments)) :
        LET permuted == Permuted(appointments, p)
        IN  \A key \in DateKeys :
                getAppointmentStatus(permuted, key)
                    = getAppointmentStatus(appointments, key)

\* a day whose list holds an open appointment before a completed one, with a
\* cancelled one in front, shown mixed
C6_Witness ==
    \E i \in 1..Len(cells) :
        /\ cells[i].kind = "day"
        /\ cells[i].appointmentStatus = "mixed"
        /\ \E a, b, c \in OnDay(cells[i].dateString) :
               /\ a < b /\ b < c
               /\ appointments[a].status = "cancelled"
               /\ appointments[b].status = "confirmed"
               /\ appointments[c].status = "completed"

\* the positions of the grid's empty cells and of its day cells
EmptyCells == {i \in 1..Len(cells) : cells[i].kind = "empty"}

DayCells == {i \in 1..Len(cells) : cells[i].kind = "day"}

\* C7: for every displayed year and month the grid has exactly
\* leadingBlanks + daysInMonth cells: leadingBlanks empty cells, as many as
\* the weekday of the 1st computed for the month, and daysInMonth day cells,
\* as many as the day count computed for the month.
C7_CellCount ==
    /\ Len(cells)
           = getFirstDayOfMonth(currentDate) + getDaysInMonth(currentDate)
    /\ Cardinality(EmptyCells) = getFirstDayOfMonth(currentDate)
    /\ Cardinality(DayCells) = getDaysInMonth(currentDate)
    /\ EmptyCells \cup DayCells = 1..Len(cells)

\* the shortest grid, a February of 28 days that begins on a Sunday, after a
\* day was tapped
C7_Witness ==
    /\ Len(cells) = 28
    /\ EmptyCells = {}
    /\ selectedDate # NullDate

\* the Gregorian calendar: leap years and the months' lengths
GregorianLeapYear(y) == y % 4 = 0 /\ (y % 100 # 0 \/ y % 400 = 0)

GregorianDaysInMonth(y, month) ==
    IF month = 1 THEN (IF GregorianLeapYear(y) THEN 29 ELSE 28)
    ELSE IF month \in {3, 5, 8, 10} THEN 30
    ELSE 31

\* C8: for every year and month 0..11, getDaysInMonth is the Gregorian day
\* count of the month: 30 or 31 by month, and for February 29 when the year
\* is divisible by 4 and not by 100, or by 400, and 28 otherwise.
C8_DaysInMonth ==
    getDaysInMonth(currentDate)
        = GregorianDaysInMonth(getFullYear(currentDate), getMonth(currentDate))

\* February 1900, a century year that is no leap year, with 28 day cells
C8_Witness ==
    /\ getFullYear(currentDate) = 1900
    /\ getMonth(currentDate) = 1
    /\ getDaysInMonth(currentDate) = 28
    /\ Cardinality(DayCells) = 28

\* the weekday (0 = Sunday) of a Gregorian date, month 1..12, by Sakamoto's
\* method
GregorianWeekDay(y, m, d) ==
    LET t == <<0, 3, 2, 5, 0, 3, 5, 1, 4, 6, 2, 4>>
        yy == IF m < 3 THEN y - 1 ELSE y
    IN  (yy + (yy \div 4) - (yy \div 100) + (yy \div 400) + t[m] + d) % 7

\* C9: the grid begins with as many empty cells as the weekday index of the
\* 1st of the displayed month (0 = Sunday .. 6 = Saturday); every empty cell
\* precedes every day cell; the day cells are numbered 1, 2, ..., daysInMonth
\* in this order.
C9_GridOrder ==
    LET first == GregorianWeekDay(getFullYear(currentDate),
                                  getMonth(currentDate) + 1, 1)
    IN  /\ Cardinality(EmptyCells) = first
        /\ \A i \in EmptyCells : \A j \in DayCells : i < j
        /\ \A i \in DayCells : cells[i].day = i - first
        /\ Cardinality(DayCells) = getDaysInMonth(currentDate)

\* the longest grid: a month of 31 days that begins on a Saturday
C9_Witness ==
    /\ Len(cells) = 37
    /\ cells[6].kind = "empty"
    /\ cells[7].kind = "day" /\ cells[7].day = 1
    /\ cells[37].day = 31

\* the number a sequence of decimal digits writes; -1 when a character is
\* no digit
IsDigit(c) == \E v \in 1..10 : Digits[v] = c

DigitValue(c) == (CHOOSE v \in 1..10 : Digits[v] = c) - 1

RECURSIVE ParseNumber(_)
ParseNumber(str) ==
    IF Len(str) = 0 THEN 0
    ELSE IF ~IsDigit(str[Len(str)]) THEN -1
    ELSE LET rest == ParseNumber(SubSeq(str, 1, Len(str) - 1))
         IN  IF rest < 0 THEN -1 ELSE 10 * rest + DigitValue(str[Len(str)])

\* C10: the date key of day d of the displayed month is YYYY-MM-DD, with the
\* one-based month and the day in two digits each: it is the key an
\* appointment of that calendar day carries.  Distinct days have distinct
\* keys, and the appointments of day d are exactly the appointments of the
\* list whose date is that key, in the list's order.
C10_DateKeys ==
    LET year == getFullYear(currentDate)
        month == getMonth(currentDate)
    IN  /\ \A i \in DayCells :
            LET key == cells[i].dateString
                found == getAppointmentsForDate(appointments, key)
            IN  /\ Len(key) = 10 /\ key[5] = "-" /\ key[8] = "-"
                /\ ParseNumber(SubSeq(key, 1, 4)) = year
                /\ ParseNumber(SubSeq(key, 6, 7)) = month + 1
                /\ ParseNumber(SubSeq(key, 9, 10)) = cells[i].day
                /\ key = ISODate(NewDate(year, month, cells[i].day))
                /\ Len(found) = Cardinality(OnDay(key))
                /\ {found[k].id : k \in 1..Len(found)}
                       = {appointments[j].id : j \in OnDay(key)}
                /\ \A k \in 1..Len(found) : \A l \in k..Len(found) :
                       found[k].id <= found[l].id
        /\ \A i, j \in DayCells :
               i # j => cells[i].dateString # cells[j].dateString

\* a December with one appointment on the 31st, attached to the 31st, and
\* one on the 1st of January, attached to no day, after the 1st was tapped
C10_Witness ==
    /\ getMonth(currentDate) = 11
    /\ Len(appointments) = 2
    /\ selectedDate # NullDate
    /\ \E i, j \in DayCells :
           /\ cells[i].day = 1 /\ cells[j].day = 31
           /\ cells[i].isSelected
           /\ Len(getAppointmentsForDate(appointments, cells[i].dateString)) = 0
           /\ Len(getAppointmentsForDate(appointments, cells[j].dateString)) = 1

\* what a build of the grid shows of the month and of the appointments: the
\* blanks, the day numbers, and each day's hasAppointment and composite status
GridOf(days) ==
    [i \in 1..Len(days) |->
        IF days[i].kind = "empty" THEN [kind |-> "empty"]
        ELSE [kind |-> "day", day |-> days[i].day, hasApt |-> days[i].hasApt,
              appointmentStatus |-> days[i].appointmentStatus]]

\* C11: a build of the grid that follows another with the same displayed
\* month and the same appointment list shows the same blanks, day numbers,
\* hasAppointment and composite statuses, whatever happened in between and
\* whichever day is selected; with the same selection too, the two grids are
\* the same cell for cell.
C11_SameBuild ==
    [][(/\ getFullYear(currentDate') = getFullYear(currentDate)
        /\ getMonth(currentDate') = getMonth(currentDate)
        /\ appointments' = appointments)
           => /\ GridOf(cells') = GridOf(cells)
              /\ selectedDate' = selectedDate => cells' = cells]_vars

\* the grid rebuilt after a tap on a day that has appointments, the month
\* and the fetched list being as they were
C11_Witness ==
    /\ selectedDate # NullDate
    /\ Len(appointments) > 0
    /\ requests = <<>>
    /\ \E i \in DayCells : cells[i].isSelected /\ cells[i].hasApt

LegendCompleted == "#10B981"

LegendScheduled == "#F59E0B"

LegendMixed == "#8B5CF6"

LegendCancelled == "#EF4444"

\* C16: getAppointmentDotColor gives completed, scheduled and mixed three
\* distinct colours, none of them the red of cancelled, and gives cancelled
\* and every other value, an unknown string or null, that red; a day cell
\* has a dot exactly when the day has an appointment and is not the selected
\* day, and the dot has the legend's colour for the day's appointments.
C16_DotColor ==
    /\ getAppointmentDotColor("completed") = LegendCompleted
    /\ getAppointmentDotColor("scheduled") = LegendScheduled
    /\ getAppointmentDotColor("mixed") = LegendMixed
    /\ Cardinality({LegendCompleted, LegendScheduled, LegendMixed,
                    LegendCancelled}) = 4
    /\ \A status \in (StatusValues \cup {"cancelled", "unknown", ""})
                          \ {"completed", "scheduled", "mixed"} :
           getAppointmentDotColor(status) = LegendCancelled
    /\ \A i \in DayCells :
           LET key == cells[i].dateString
           IN  /\ (cells[i].dot # NULL)
                      <=> (OnDay(key) # {} /\ selectedDate # key)
               /\ cells[i].dot # NULL =>
                      cells[i].dot =
                          IF HasCompleted(key) /\ HasOpen(key) THEN LegendMixed
                          ELSE IF HasCompleted(key) THEN LegendCompleted
                          ELSE IF HasOpen(key) THEN LegendScheduled
                          ELSE LegendCancelled

\* a selected day with appointments of an unknown status only: no dot, and
\* red the colour of its composite status
C16_Witness ==
    \E i \in DayCells :
        /\ cells[i].isSelected
        /\ StatusesOn(cells[i].dateString) = {"no_show"}
        /\ cells[i].dot = NULL
        /\ getAppointmentDotColor(cells[i].appointmentStatus) = LegendCancelled

\* C13: building the grid and computing the day statuses changes nothing of
\* the screen's state.  Every step of the screen rebuilds the grid; a step
\* changes the appointment list only when a fetch has resolved, the
\* displayed month only when a navigation cleared the selection, the doctor
\* id only when getCurrentUser has resolved, the loading flag only when a
\* fetch was issued or has resolved, and a tap on a day or on an upcoming
\* appointment changes the selected date alone.
C13_RenderFrame ==
    [][/\ appointments' # appointments => Len(requests') < Len(requests)
       /\ currentDate' # currentDate => selectedDate' = NullDate
       /\ doctorId' # doctorId => authPending /\ ~authPending'
       /\ loading' # loading => requests' # requests
       /\ (selectedDate' # selectedDate /\ selectedDate' # NullDate) =>
              /\ UNCHANGED <<appointments, currentDate, loading, doctorId>>
              /\ \/ \E i \in DayCells : selectedDate' = cells[i].dateString
                 \/ \E i \in 1..Len(appointments) :
                        selectedDate' = appointments[i].date]_vars

\* a tap on a day while a fetch is in flight and an earlier fetch's list is
\* shown
C13_Witness ==
    /\ selectedDate # NullDate
    /\ Len(appointments) = 1
    /\ loading
    /\ Len(requests) = 1
    /\ doctorId # NULL

\* the result of the fetch for the month now displayed
FreshAppointments ==
    formattedAppointments(
        QueryResult(appointmentsTable,
                    fetchRequest(currentDate, doctorId, localTZA)))

\* C14: once every fetch issued has resolved, none of them with an error,
\* the appointment list is the result of the fetch issued for the displayed
\* month, not of a fetch issued for a month displayed earlier.
C14_NoStaleOverwrite ==
    (doctorId # NULL /\ requests = <<>> /\ alerts = <<>>)
        => appointments = FreshAppointments

\* the local day number of an instant
LocalDay(t) == Day(t + localTZA)

\* the days of the month a request was issued for, as local day numbers
RequestedDays(request) ==
    LET first == LocalDay(request.firstDay)
    IN  first..NewDate(getFullYear(first), getMonth(first) + 1, 0)

\* C15: a query issued for a displayed month matches rows of the current
\* doctor only, and matches every row of that doctor whose instant falls on
\* a day of the month, the first to the last, at any time of day.
C15_QueryRange ==
    \A k \in 1..Len(requests) : \A row \in appointmentsTable :
        /\ Matches(row, requests[k]) => row.doctor_id = doctorId
        /\ (/\ row.doctor_id = doctorId
            /\ LocalDay(row.appointment_date) \in RequestedDays(requests[k]))
               => Matches(row, requests[k])

\* the month a date lies in, months counted from year 0
YearMonth(date) == 12 * getFullYear(date) + getMonth(date)

\* C20: navigateMonth('next') displays exactly the following month and
\* navigateMonth('prev') exactly the preceding one, whatever the day of the
\* month of the current date; a navigation always changes the month.
C20_NavigateMonth ==
    [][/\ navigateMonth("next") =>
              YearMonth(currentDate') = YearMonth(currentDate) + 1
       /\ navigateMonth("prev") =>
              YearMonth(currentDate') = YearMonth(currentDate) - 1]_vars

\* C19: whenever no report fetch is in flight, and none has left an error
\* on display, every report of the displayed list has the status of the
\* selected filter tab, any status when the tab is 'all'.
C19_FilteredList ==
    (ReportsInFlight = 0 /\ error = NULL) =>
        \A i \in 1..Len(reports) :
            filterStatus = "all" \/ reports[i].status = filterStatus

\* C17: a run of handleDownload goes through its awaits in the order signed
\* URL, download, share (isAvailableAsync, then shareAsync), each at most
\* once; a run that ends at the signed URL or at the download has failed
\* there, does none of the later steps and raises the one alert Download
\* Error; a run that ends inside the share step raises at most one alert,
\* exactly one unless shareAsync resolved; and whenever a run ends,
\* downloadingId is null.
C17_DownloadSteps ==
    [][/\ Len(downloads') = Len(downloads) + 1 =>
              /\ downloads' = Append(downloads, downloads'[Len(downloads')])
              /\ downloads'[Len(downloads')].pc = "createSignedUrl"
              /\ downloadingId' = downloads'[Len(downloads')].report
              /\ alerts' = alerts
       /\ (Len(downloads') = Len(downloads) /\ downloads' # downloads) =>
              /\ \E k \in 1..Len(downloads) :
                     /\ downloads[k].pc # "shareAsync"
                     /\ downloads' =
                            [downloads EXCEPT ![k].pc =
                                CASE @ = "createSignedUrl" -> "downloadAsync"
                                  [] @ = "downloadAsync" -> "isAvailableAsync"
                                  [] @ = "isAvailableAsync" -> "shareAsync"]
              /\ alerts' = alerts
              /\ downloadingId' = downloadingId
       /\ Len(downloads') < Len(downloads) =>
              /\ downloadingId' = NULL
              /\ \E k \in 1..Len(downloads) :
                     /\ downloads' = Without(downloads, k)
                     /\ CASE downloads[k].pc \in
                                  {"createSignedUrl", "downloadAsync"} ->
                                 alerts' = Append(alerts, "Download Error")
                          [] downloads[k].pc = "isAvailableAsync" ->
                                 \/ alerts' = Append(alerts, "Share Error")
                                 \/ alerts' =
                                        Append(alerts, "Sharing not available")
                          [] downloads[k].pc = "shareAsync" ->
                                 \/ alerts' = Append(alerts, "Share Error")
                                 \/ alerts' = alerts]_vars

\* a run has failed at the download while another run goes on: one alert,
\* and downloadingId null
C17_Witness ==
    /\ alerts = <<"Download Error">>
    /\ downloadingId = NULL
    /\ Len(downloads) = 1
    /\ downloads[1].pc = "shareAsync"

\* the prescriptions fetched by the query of the patients screen
Fetched == PrescriptionsQuery(prescriptionsTable, user)

\* C18: after fetchPatientsWithPrescriptions succeeds, the patient list has
\* exactly one entry per distinct patient_id among the fetched
\* prescriptions, every fetched prescription appears exactly once and only
\* in the history of its own patient, and each history is ordered by date
\* descending.
C18_Grouping ==
    [][fetchPatientsDone =>
          /\ {patients'[j].id : j \in 1..Len(patients')}
                 = {Fetched[i].patient_id : i \in 1..Len(Fetched)}
          /\ \A j, l \in 1..Len(patients') :
                 patients'[j].id = patients'[l].id => j = l
          /\ \A i \in 1..Len(Fetched) :
                 \E j \in 1..Len(patients') :
                     \E h \in 1..Len(patients'[j].history) :
                         /\ patients'[j].history[h].id = Fetched[i].id
                         /\ patients'[j].history[h].date
                                = Fetched[i].created_at
                         /\ patients'[j].id = Fetched[i].patient_id
                         /\ \A l \in 1..Len(patients') :
                                \A g \in 1..Len(patients'[l].history) :
                                    patients'[l].history[g].id = Fetched[i].id
                                        => l = j /\ g = h
          /\ \A j \in 1..Len(patients') :
                 /\ \A h \in 1..Len(patients'[j].history) :
                        \E i \in 1..Len(Fetched) :
                            Fetched[i].id = patients'[j].history[h].id
                 /\ \A g, h \in 1..Len(patients'[j].history) :
                        g < h => patients'[j].history[g].date
                                     >= patients'[j].history[h].date]_vars

\* two patients are listed, one of them with two prescriptions of the same
\* millisecond and different dates
C18_Witness ==
    /\ patientRequests = 0
    /\ ~patientsLoading
    /\ Len(patients) = 2
    /\ \E j \in 1..2 :
           /\ Len(patients[j].history) = 2
           /\ patients[j].history[1].date > patients[j].history[2].date
           /\ getTime(patients[j].history[1].date)
                  = getTime(patients[j].history[2].date)

\* the date keys of the days of the displayed month
DisplayedKeys ==
    {formatDate(getFullYear(currentDate), getMonth(currentDate), day) :
        day \in 1..getDaysInMonth(currentDate)}

\* C21: selectedDate is null or the date key of a day of the displayed
\* month, under any interleaving of taps, navigations and fetch completions.
C21_SelectedInMonth == selectedDate = NullDate \/ selectedDate \in DisplayedKeys

\* C22: whenever an appointments fetch is in flight the loading flag is
\* true; the completion of an earlier fetch never turns it off while a later
\* fetch is still pending.
C22_LoadingWhileInFlight == requests # <<>> => loading

\* C23: when the user lookup and every issued fetch resolve, the loading
\* flag becomes false in the end, also when the lookup returns no user or
\* throws, and once false it stays false until a fetch starts.
C23_LoadingEnds ==
    /\ <>(~loading)
    /\ [][~loading /\ loading' => Len(requests') > Len(requests)]_vars

\* C24: a step in which a fetch ends leaves the displayed month and the
\* selected date as they were and sets loading to false; it either raises
\* the one alert of a failed fetch and leaves the appointment list as it
\* was, or raises no alert and replaces the list by the fetch's result.  No
\* other step replaces the appointment list.
C24_FetchFailure ==
    [][/\ Len(requests') < Len(requests) =>
              /\ ~loading'
              /\ UNCHANGED <<currentDate, selectedDate>>
              /\ \/ /\ alerts' = Append(alerts, "Failed to fetch appointments")
                    /\ appointments' = appointments
                 \/ /\ alerts' = alerts
                    /\ \E k \in 1..Len(requests) :
                           /\ requests' = Without(requests, k)
                           /\ appointments' =
                                  formattedAppointments(
                                      QueryResult(appointmentsTable,
                                                  requests[k]))
       /\ appointments' # appointments =>
              Len(requests') < Len(requests) /\ alerts' = alerts]_vars

\* a fetch has failed while an earlier fetch's list is shown and a day is
\* selected: the list and the selection are still there
C24_Witness ==
    /\ alerts = <<"Failed to fetch appointments">>
    /\ appointments # <<>>
    /\ selectedDate # NullDate
    /\ ~loading
    /\ requests = <<>>

\* C25: every appointment the query for the displayed month returns is
\* attached to exactly one day cell of the grid: its date key, the UTC day
\* of its timestamp, is the key of one day of the displayed month, in every
\* time zone of the device.
C25_KeyInGrid ==
    doctorId # NULL =>
        \A i \in 1..Len(FreshAppointments) :
            Cardinality({j \in 1..Len(cells) :
                            /\ cells[j].kind = "day"
                            /\ cells[j].dateString = FreshAppointments[i].date})
                = 1

\* C26: while a download of a report is in flight downloadingId is that
\* report's id; at most one download per report is in flight, and
\* downloadingId is null only when no download is in flight.
C26_OneDownloadPerReport ==
    /\ \A k \in 1..Len(downloads) : downloadingId = downloads[k].report
    /\ \A k, l \in 1..Len(downloads) :
           downloads[k].report = downloads[l].report => k = l
    /\ downloadingId = NULL => downloads = <<>>

\* C27: a step in which an update ends either raises no alert and gives
\* exactly the listed report of the update's id the new status, with a
\* reviewed_date exactly when that status is 'reviewed', every other report
\* and the order staying as they were, or it raises one alert and leaves
\* the list as it was.  A step that starts an update leaves the list as it
\* was, and the update it starts is to 'reviewed', of a listed report whose
\* status is 'pending'.
C27_UpdateReportStatus ==
    [][/\ Len(updateRequests') < Len(updateRequests) =>
              \E k \in 1..Len(updateRequests) :
                  /\ updateRequests' = Without(updateRequests, k)
                  /\ \/ /\ alerts' = alerts
                        /\ \A r \in reportsTable' :
                               r.id = updateRequests[k].id =>
                                   r.status = updateRequests[k].status
                        /\ Len(reports') = Len(reports)
                        /\ \A i \in 1..Len(reports) :
                               IF reports[i].id = updateRequests[k].id
                               THEN /\ reports'[i].status =
                                           updateRequests[k].status
                                    /\ reports'[i].reviewed_date # NULL
                                           <=> updateRequests[k].status
                                                   = "reviewed"
                                    /\ reports'[i].id = reports[i].id
                                    /\ reports'[i].upload_date
                                           = reports[i].upload_date
                               ELSE reports'[i] = reports[i]
                     \/ /\ alerts' =
                               Append(alerts, "Failed to update report status")
                        /\ reports' = reports
                        /\ reportsTable' = reportsTable
       /\ Len(updateRequests') > Len(updateRequests) =>
              /\ reports' = reports
              /\ \E i \in 1..Len(reports) :
                     /\ reports[i].status = "pending"
                     /\ updateRequests' =
                            Append(updateRequests,
                                   [id |-> reports[i].id,
                                    status |-> "reviewed"])]_vars

\* an update has succeeded: of three listed reports one is reviewed, with a
\* reviewed_date, and another is still pending
C27_Witness ==
    /\ updateRequests = <<>>
    /\ alerts = <<>>
    /\ Len(reports) = 3
    /\ \E i, j \in 1..Len(reports) :
           /\ reports[i].status = "reviewed"
           /\ reports[i].reviewed_date # NULL
           /\ reports[j].status = "pending"

\* C28: selecting a menu item calls, in this order, setActiveItem(item.id),
\* router.push(item.route) and onClose(); when router.push throws, the error
\* is caught and nothing is thrown on, onClose is not called, the menu stays
\* open, and the active item is already the selected one.
C28_HandleNavigation ==
    [][\A i \in 1..Len(menuItems) :
           LET item == menuItems[i]
               set == [fn |-> "setActiveItem", arg |-> item.id]
               push == [fn |-> "router.push", arg |-> item.route]
           IN  /\ handleNavigation(item, FALSE) =>
                      /\ calls' = <<set, push, [fn |-> "onClose", arg |-> NULL]>>
                      /\ activeItem' = item.id
                      /\ stack' = Append(stack, item.route)
                      /\ ~isVisible'
               /\ handleNavigation(item, TRUE) =>
                      /\ calls' =
                             <<set, push, [fn |-> "console.error", arg |-> NULL]>>
                      /\ activeItem' = item.id
                      /\ stack' = stack
                      /\ isVisible']_vars

\* router.push has thrown on the item Doctors after an earlier navigation
\* to another item: the menu is open and the active item is Doctors
C28_Witness ==
    /\ isVisible
    /\ activeItem = "doctors"
    /\ Len(stack) = 2
    /\ stack[2] # "/(patient)/doctors"
    /\ Len(calls) = 3
    /\ calls[3].fn = "console.error"

====
